---- MODULE Spec2Model ----
(***************************************************************************)
(* A model of the gemini-backend HTTP service: the chat gateway            *)
(* (POST /api/chat, src/index.js and src/unnamed/part_000) and the card    *)
(* registry gateway (the /api/cards routes of src/unnamed/part_000).       *)
(*                                                                         *)
(* The two outbound collaborators are modelled by their call contracts:    *)
(*   - the completion provider either throws (network failure, API error,  *)
(*     blocked response) or returns a text, which may be the empty string; *)
(*   - the row store resolves every call with {data, error}: a failure is  *)
(*     reported in `error`, it does not reject the awaited promise.        *)
(* Column names of the store are rendered in English:                      *)
(*   issuer = 發卡機構, card_name = 卡名, spend_category = 消費種類,       *)
(*   reward_value = 回饋數值, region = 簽帳地區.                           *)
(***************************************************************************)
EXTENDS Integers, Sequences, FiniteSets, TLC

VARIABLES
    pc,            \* chat: where each request's handler stands
    message,       \* chat: req.body.message of each request
    aiText,        \* chat: the handler's local aiText
    error,         \* chat: the handler's local error, of the log insert
    res,           \* chat: the response sent for each request
    trace,         \* chat: what each request's handler has done, in order
    ai_logs,       \* the store's ai_logs table
    credit_cards,  \* the store's credit_cards table, in physical order
    nextId,        \* the next id the store assigns to an inserted card
    cardRes,       \* cards: the last response a /api/cards route sent
    lastCreated    \* cards: the 201 response of the route call just before

vars == <<pc, message, aiText, error, res, trace, ai_logs,
          credit_cards, nextId, cardRes, lastCreated>>

chatVars == <<pc, message, aiText, error, res, trace, ai_logs>>
cardVars == <<credit_cards, nextId, cardRes, lastCreated>>

-----------------------------------------------------------------------------
(* Bounds *)

NReq == 2          \* chat requests in flight together
MaxId == 2         \* cards the store ever creates

-----------------------------------------------------------------------------
(* JSON values: strings are sequences of characters *)

U == [t |-> "undefined"]
Null == [t |-> "null"]
S(s) == [t |-> "string", s |-> s]
N(n) == [t |-> "number", n |-> n]

\* JavaScript truthiness, as `!value` in the handlers reads it
Truthy(v) ==
    CASE v.t = "undefined" -> FALSE
      [] v.t = "null" -> FALSE
      [] v.t = "string" -> v.s # <<>>
      [] v.t = "number" -> v.n # 0

NoResponse == [status |-> 0]

-----------------------------------------------------------------------------
(* POST /api/chat *)

Reqs == 1..NReq

Messages == {U, S(<<>>), S(<<"h">>), S(<<"y">>)}

\* What the completion provider can return for a prompt: a generated text,
\* or the empty text (no candidates).
Completion(m) == {S(<<>>), S(<<"r">> \o m.s)}

\* What the provider can throw
ProviderErrors == {"fetch failed", "API error"}

\* The `error` of the store's answer: null, or an error object
NoError == Null
StoreErrors == {[t |-> "error", message |-> "store unreachable"],
                [t |-> "error", message |-> "constraint violation"]}
StoreAnswers == {NoError} \cup StoreErrors
CardStoreAnswers == {NoError, [t |-> "error", message |-> "store unreachable"]}

\* if (!message)
MissingMessageAbsentOnly(m) == m = U
MissingMessage(m) == ~Truthy(m)

BadRequest == [status |-> 400, error |-> "message required"]

\* the catch block: res.status(500).json({error, details: error.message})
ServerErrorNoDetails(msg) == [status |-> 500, error |-> "server error", details |-> ""]
ServerError(msg) == [status |-> 500, error |-> "server error", details |-> msg]

\* res.json({reply: aiText, saved: !error})
ChatReplyStrict(text, err) ==
    IF err = NoError
    THEN [status |-> 200, reply |-> text, saved |-> TRUE]
    ELSE ServerError(err.message)
ChatReply(text, err) == [status |-> 200, reply |-> text, saved |-> (err = NoError)]

\* the row of insert([{prompt: message, response: aiText}])
LogRowOfFirst(r) == [prompt |-> message[1], response |-> aiText[1]]
LogRow(r) == [prompt |-> message[r], response |-> aiText[r]]

\* the store's insert into ai_logs
InsertLogOverwrite(logs, row) == <<row>>
InsertLog(logs, row) == Append(logs, row)

Did(r, what) == [trace EXCEPT ![r] = Append(@, what)]
Did2(r, a, b) == [trace EXCEPT ![r] = Append(Append(@, a), b)]

\* The handler up to its first await: validation, then the provider call.
ChatPost(r, m) ==
    /\ pc[r] = "new"
    /\ message' = [message EXCEPT ![r] = m]
    /\ IF MissingMessage(m)
       THEN /\ res' = [res EXCEPT ![r] = BadRequest]
            /\ pc' = [pc EXCEPT ![r] = "done"]
            /\ trace' = Did2(r, "validate", "respond")
       ELSE /\ pc' = [pc EXCEPT ![r] = "generateContent"]
            /\ trace' = Did2(r, "validate", "provider")
            /\ res' = res
    /\ UNCHANGED <<aiText, error, ai_logs>>
    /\ UNCHANGED cardVars

\* generateContent resolves and response.text() returns: the log insert is issued.
GenerateContentReturns(r, text) ==
    /\ pc[r] = "generateContent"
    /\ text \in Completion(message[r])
    /\ aiText' = [aiText EXCEPT ![r] = text]
    /\ pc' = [pc EXCEPT ![r] = "insert"]
    /\ trace' = Did(r, "log")
    /\ UNCHANGED <<message, error, res, ai_logs>>
    /\ UNCHANGED cardVars

\* generateContent rejects or response.text() throws: the catch block answers.
GenerateContentThrows(r, msg) ==
    /\ pc[r] = "generateContent"
    /\ res' = [res EXCEPT ![r] = ServerError(msg)]
    /\ pc' = [pc EXCEPT ![r] = "done"]
    /\ trace' = Did(r, "respond")
    /\ UNCHANGED <<message, aiText, error, ai_logs>>
    /\ UNCHANGED cardVars

\* The store answers the insert with {data, error}; the handler replies.
InsertReturns(r, err) ==
    /\ pc[r] = "insert"
    /\ error' = [error EXCEPT ![r] = err]
    /\ ai_logs' = IF err = NoError THEN InsertLog(ai_logs, LogRow(r)) ELSE ai_logs
    /\ res' = [res EXCEPT ![r] = ChatReply(aiText[r], err)]
    /\ pc' = [pc EXCEPT ![r] = "done"]
    /\ trace' = Did(r, "respond")
    /\ UNCHANGED <<message, aiText>>
    /\ UNCHANGED cardVars

ChatInit ==
    /\ pc = [r \in Reqs |-> "new"]
    /\ message = [r \in Reqs |-> U]
    /\ aiText = [r \in Reqs |-> U]
    /\ error = [r \in Reqs |-> U]
    /\ res = [r \in Reqs |-> NoResponse]
    /\ trace = [r \in Reqs |-> <<>>]
    /\ ai_logs = <<>>

-----------------------------------------------------------------------------
(* The credit_cards table and the /api/cards routes.  A route call is one   *)
(* store statement, which the store executes atomically, and a response     *)
(* computed from its answer alone: each route is one action.                *)

NoCardResponse == [op |-> "none", status |-> 0]

Columns == {"issuer", "card_name", "spend_category", "reward_value", "region"}

\* const requiredFields = ['發卡機構', '卡名', '消費種類', '回饋數值']
requiredFields == <<"issuer", "card_name", "spend_category", "reward_value">>

Empty == [c \in Columns |-> U]

\* Request bodies of POST /api/cards: complete ones, and ones with a required
\* field absent, empty or zero
Complete ==
    {[issuer |-> S(<<"b">>), card_name |-> S(<<"c">>),
      spend_category |-> S(<<"D", "i">>), reward_value |-> N(2), region |-> U],
     [issuer |-> S(<<"a", "b">>), card_name |-> S(<<"c">>),
      spend_category |-> S(<<"D", "i">>), reward_value |-> N(2),
      region |-> S(<<"h">>)]}

Base == [issuer |-> S(<<"b">>), card_name |-> S(<<"c">>),
         spend_category |-> S(<<"x">>), reward_value |-> S(<<"2">>), region |-> U]

Incomplete ==
    {[Base EXCEPT !.issuer = U],
     [Base EXCEPT !.issuer = S(<<>>)],
     [Base EXCEPT !.card_name = U],
     [Base EXCEPT !.spend_category = S(<<>>)],
     [Base EXCEPT !.reward_value = U],
     [Base EXCEPT !.reward_value = N(0)],
     [Base EXCEPT !.card_name = S(<<>>), !.reward_value = U],
     [Base EXCEPT !.issuer = U, !.spend_category = U]}

CardBodies == Complete \cup {Base} \cup Incomplete

\* Request bodies of PUT /api/cards/:id
Patches ==
    {[Empty EXCEPT !.issuer = S(<<"a">>)],
     [Empty EXCEPT !.spend_category = S(<<"x">>)]}

Ids == 1..MaxId

RowIds(rows) == {rows[i].id : i \in 1..Len(rows)}

\* for (const field of requiredFields) if (!cardData[field]) return 400:
\* the index of the first field that fails, 0 when none does
RECURSIVE FirstMissingFrom(_, _)
FirstMissingFrom(cardData, i) ==
    IF i > Len(requiredFields) THEN 0
    ELSE IF ~Truthy(cardData[requiredFields[i]]) THEN i
    ELSE FirstMissingFrom(cardData, i + 1)

FirstMissing(cardData) == FirstMissingFrom(cardData, 1)

\* The row insert([cardData]).select() creates: a column not given is null.
Column(cardData, c) == IF cardData[c] = U THEN Null ELSE cardData[c]

InsertedRowRequiredOnly(cardData, id) ==
    [id |-> id,
     issuer |-> Column(cardData, "issuer"),
     card_name |-> Column(cardData, "card_name"),
     spend_category |-> Column(cardData, "spend_category"),
     reward_value |-> Column(cardData, "reward_value"),
     region |-> Null]
InsertedRow(cardData, id) ==
    [id |-> id,
     issuer |-> Column(cardData, "issuer"),
     card_name |-> Column(cardData, "card_name"),
     spend_category |-> Column(cardData, "spend_category"),
     reward_value |-> Column(cardData, "reward_value"),
     region |-> Column(cardData, "region")]

\* update(cardData): the columns given replace the row's, the others stay
UpdatedRow(row, cardData) ==
    [id |-> row.id,
     issuer |-> IF cardData.issuer = U THEN row.issuer ELSE cardData.issuer,
     card_name |-> IF cardData.card_name = U THEN row.card_name ELSE cardData.card_name,
     spend_category |-> IF cardData.spend_category = U THEN row.spend_category
                        ELSE cardData.spend_category,
     reward_value |-> IF cardData.reward_value = U THEN row.reward_value
                      ELSE cardData.reward_value,
     region |-> IF cardData.region = U THEN row.region ELSE cardData.region]

\* .eq('id', id)
EqIdAny(row, id) == TRUE
EqId(row, id) == row.id = id

Matching(rows, id) == SelectSeq(rows, LAMBDA row : EqId(row, id))
NotMatching(rows, id) == SelectSeq(rows, LAMBDA row : ~EqId(row, id))

UpdateAll(rows, id, cardData) ==
    [i \in 1..Len(rows) |->
        IF EqId(rows[i], id) THEN UpdatedRow(rows[i], cardData) ELSE rows[i]]

\* The store's ascending order of a text column
CharRank(c) ==
    CASE c = "a" -> 1 [] c = "b" -> 2 [] c = "c" -> 3 [] c = "d" -> 4
      [] OTHER -> 5

RECURSIVE StrLeq(_, _)
StrLeq(s, t) ==
    IF s = <<>> THEN TRUE
    ELSE IF t = <<>> THEN FALSE
    ELSE IF CharRank(Head(s)) < CharRank(Head(t)) THEN TRUE
    ELSE IF CharRank(Head(s)) > CharRank(Head(t)) THEN FALSE
    ELSE StrLeq(Tail(s), Tail(t))

IssuerLeq(a, b) == StrLeq(a.issuer.s, b.issuer.s)

SortedByIssuer(rows) ==
    \A i \in 1..Len(rows) - 1 : IssuerLeq(rows[i], rows[i + 1])

Rearrangements(rows) ==
    {[i \in 1..Len(rows) |-> rows[p[i]]] :
        p \in {q \in [1..Len(rows) -> 1..Len(rows)] :
                  \A i, j \in 1..Len(rows) : i # j => q[i] # q[j]}}

\* .select('*').order('發卡機構', {ascending: true}): every row, in an order
\* ascending by issuer; the store places rows of equal issuer as it likes.
SelectUnordered(rows) == {rows}
SelectOrderByIssuer(rows) == {d \in Rearrangements(rows) : SortedByIssuer(d)}

\* GET /api/cards
GetCards(err) ==
    /\ IF err # NoError
       THEN cardRes' = [op |-> "GET", status |-> 500, details |-> err.message]
       ELSE \E data \in SelectOrderByIssuer(credit_cards) :
               cardRes' = [op |-> "GET", status |-> 200, data |-> data]
    /\ UNCHANGED <<credit_cards, nextId, lastCreated>>
    /\ UNCHANGED chatVars

\* POST /api/cards
PostCards(cardData, err) ==
    /\ IF FirstMissing(cardData) # 0
       THEN /\ cardRes' = [op |-> "POST", body |-> cardData, status |-> 400,
                           field |-> requiredFields[FirstMissing(cardData)]]
            /\ lastCreated' = Null
            /\ UNCHANGED <<credit_cards, nextId>>
       ELSE IF err # NoError
       THEN /\ cardRes' = [op |-> "POST", body |-> cardData, status |-> 500,
                           details |-> err.message]
            /\ lastCreated' = Null
            /\ UNCHANGED <<credit_cards, nextId>>
       ELSE /\ nextId <= MaxId
            /\ credit_cards' = Append(credit_cards, InsertedRow(cardData, nextId))
            /\ nextId' = nextId + 1
            /\ cardRes' = [op |-> "POST", body |-> cardData, status |-> 201,
                           data |-> InsertedRow(cardData, nextId)]
            /\ lastCreated' = [body |-> cardData, data |-> InsertedRow(cardData, nextId)]
    /\ UNCHANGED chatVars

\* PUT /api/cards/:id
PutCards(id, cardData, err) ==
    /\ IF err # NoError
       THEN /\ cardRes' = [op |-> "PUT", id |-> id, status |-> 500,
                           details |-> err.message]
            /\ credit_cards' = credit_cards
       ELSE LET data == Matching(UpdateAll(credit_cards, id, cardData), id) IN
            /\ credit_cards' = UpdateAll(credit_cards, id, cardData)
            /\ IF Len(data) = 0
               THEN cardRes' = [op |-> "PUT", id |-> id, status |-> 404]
               ELSE cardRes' = [op |-> "PUT", id |-> id, status |-> 200,
                                data |-> data[1]]
    /\ lastCreated' = Null
    /\ UNCHANGED nextId
    /\ UNCHANGED chatVars

\* DELETE /api/cards/:id
DeleteCards(id, err) ==
    /\ IF err # NoError
       THEN /\ cardRes' = [op |-> "DELETE", id |-> id, status |-> 500,
                           details |-> err.message]
            /\ credit_cards' = credit_cards
       ELSE LET data == Matching(credit_cards, id) IN
            /\ credit_cards' = NotMatching(credit_cards, id)
            /\ IF Len(data) = 0
               THEN cardRes' = [op |-> "DELETE", id |-> id, status |-> 404]
               ELSE cardRes' = [op |-> "DELETE", id |-> id, status |-> 200]
    /\ lastCreated' = Null
    /\ UNCHANGED nextId
    /\ UNCHANGED chatVars

\* ILIKE: the comparison ignores case; in the pattern % stands for any run of
\* characters and _ for any one character.
Lower(c) ==
    CASE c = "D" -> "d" [] c = "I" -> "i" [] c = "H" -> "h" [] c = "X" -> "x"
      [] OTHER -> c

RECURSIVE Like(_, _)
Like(s, p) ==
    IF p = <<>> THEN s = <<>>
    ELSE IF Head(p) = "%" THEN Like(s, Tail(p)) \/ (s # <<>> /\ Like(Tail(s), p))
    ELSE IF s = <<>> THEN FALSE
    ELSE IF Head(p) = "_" THEN Like(Tail(s), Tail(p))
    ELSE Lower(Head(s)) = Lower(Head(p)) /\ Like(Tail(s), Tail(p))

\* query.ilike(column, `%${value}%`): a null column matches nothing
ILike(row, column, value) ==
    /\ row[column].t = "string"
    /\ Like(row[column].s, <<"%">> \o value.s \o <<"%">>)

\* Query parameters of GET /api/cards/filter
Categories == {U, S(<<>>), S(<<"d", "I">>), S(<<"_">>)}
Regions == {U, S(<<"H">>)}

\* if (category) query = query.ilike('消費種類', ...); if (region) ...
Selected(row, category, region) ==
    /\ Truthy(category) => ILike(row, "spend_category", category)
    /\ Truthy(region) => ILike(row, "region", region)

\* GET /api/cards/filter
GetCardsFilter(category, region, err) ==
    /\ IF err # NoError
       THEN cardRes' = [op |-> "FILTER", category |-> category, region |-> region,
                        status |-> 500, details |-> err.message]
       ELSE cardRes' = [op |-> "FILTER", category |-> category, region |-> region,
                        status |-> 200,
                        data |-> SelectSeq(credit_cards,
                                    LAMBDA row : Selected(row, category, region))]
    /\ lastCreated' = Null
    /\ UNCHANGED <<credit_cards, nextId>>
    /\ UNCHANGED chatVars

CardInit ==
    /\ credit_cards = <<>>
    /\ nextId = 1
    /\ cardRes = NoCardResponse
    /\ lastCreated = Null

Init == ChatInit /\ CardInit

ChatNext ==
    \/ \E r \in Reqs, m \in Messages : ChatPost(r, m)
    \/ \E r \in Reqs, m \in Messages \ {U} : \E text \in Completion(m) :
          GenerateContentReturns(r, text)
    \/ \E r \in Reqs, msg \in ProviderErrors : GenerateContentThrows(r, msg)
    \/ \E r \in Reqs, err \in StoreAnswers : InsertReturns(r, err)

CardNext ==
    \/ \E err \in CardStoreAnswers : GetCards(err)
    \/ \E cardData \in CardBodies, err \in CardStoreAnswers : PostCards(cardData, err)
    \/ \E id \in Ids, cardData \in Patches, err \in CardStoreAnswers :
          PutCards(id, cardData, err)
    \/ \E id \in Ids, err \in CardStoreAnswers : DeleteCards(id, err)
    \/ \E category \in Categories, region \in Regions, err \in CardStoreAnswers :
          GetCardsFilter(category, region, err)

ChatSpec == Init /\ [][ChatNext]_vars
CardSpec == Init /\ [][CardNext]_vars

-----------------------------------------------------------------------------
(* Properties of POST /api/chat *)

Done(r) == pc[r] = "done"
Called(r, what) == \E i \in 1..Len(trace[r]) : trace[r][i] = what
Count(r, what) == Cardinality({i \in 1..Len(trace[r]) : trace[r][i] = what})
LogRows == {ai_logs[i] : i \in 1..Len(ai_logs)}

\* C1: a request whose message passed validation and whose completion call
\* returned a text is answered 200 with reply = that text, whatever the log
\* insert answered: saved = false when the insert reported an error, saved =
\* true when it did not.
C1_LogFailureKeepsReply ==
    \A r \in Reqs :
        (Done(r) /\ aiText[r] # U) =>
            /\ res[r].status = 200
            /\ res[r].reply = aiText[r]
            /\ error[r] \in StoreErrors => res[r].saved = FALSE
            /\ error[r] = NoError => res[r].saved = TRUE

C1_Witness ==
    \E r \in Reqs :
        /\ Done(r)
        /\ aiText[r] = S(<<"r", "h">>)
        /\ error[r] \in StoreErrors
        /\ res[r] = [status |-> 200, reply |-> S(<<"r", "h">>), saved |-> FALSE]

\* C2 as claimed: every failure of the completion step, an empty completion
\* included, is answered 500 and no log write is attempted for the request.
C2_EmptyCompletionIsFailure ==
    \A r \in Reqs :
        (Done(r) /\ Called(r, "provider") /\ aiText[r] \in {U, S(<<>>)}) =>
            /\ res[r].status = 500
            /\ ~Called(r, "log")

\* C2 amended: a completion step that throws (network failure, provider API
\* error) is answered 500 carrying the provider's message, and no log write
\* is attempted for the request; an empty completion is not a failure: it is
\* logged and answered 200 with an empty reply.
C2_ThrownFailureIs500 ==
    \A r \in Reqs :
        (Done(r) /\ Called(r, "provider")) =>
            /\ aiText[r] = U =>
                  /\ res[r].status = 500
                  /\ res[r].details \in ProviderErrors
                  /\ ~Called(r, "log")
                  /\ error[r] = U
            /\ aiText[r] = S(<<>>) =>
                  /\ res[r].status = 200
                  /\ res[r].reply = S(<<>>)
                  /\ Called(r, "log")

C2_Witness ==
    \E r, q \in Reqs :
        /\ Done(r) /\ Called(r, "provider") /\ res[r].status = 500
        /\ res[r].details = "API error"
        /\ Done(q) /\ aiText[q] = S(<<>>) /\ res[q].status = 200

\* C3: a request whose message is absent or empty is answered 400; the
\* completion provider is not called for it and no log row is written for it.
C3_MissingMessageIs400 ==
    \A r \in Reqs :
        (pc[r] # "new" /\ message[r] \in {U, S(<<>>)}) =>
            /\ res[r].status = 400
            /\ ~Called(r, "provider")
            /\ ~Called(r, "log")
            /\ \A row \in LogRows : row.prompt # message[r]

C3_Witness ==
    \E r, q \in Reqs :
        /\ Done(r) /\ message[r] = S(<<>>) /\ res[r] = BadRequest
        /\ Done(q) /\ message[q] = U /\ res[q] = BadRequest

\* C6 as claimed: a log write is attempted after every request forwarded to
\* the completion provider, whether the completion call succeeded or failed.
C6_LogAfterEveryForward ==
    \A r \in Reqs : (Done(r) /\ Called(r, "provider")) => Called(r, "log")

\* C6 amended: a log write {prompt, response} is attempted after exactly those
\* forwarded requests whose completion call returned; the chat path only ever
\* appends to the log; a write that failed is swallowed (200, saved = false).
C6_LogAfterCompletionOnly ==
    /\ [](\A r \in Reqs :
            (Done(r) /\ Called(r, "provider")) =>
                /\ Called(r, "log") <=> aiText[r] # U
                /\ error[r] \in StoreErrors =>
                      (res[r].status = 200 /\ res[r].saved = FALSE))
    /\ [](Len(ai_logs) = Cardinality({r \in Reqs : error[r] = NoError}))
    /\ [][\/ ai_logs' = ai_logs
          \/ \E r \in Reqs :
                ai_logs' = Append(ai_logs, [prompt |-> message[r],
                                            response |-> aiText[r]])]_vars

C6_Witness ==
    \E r, q \in Reqs :
        /\ Done(r) /\ Called(r, "provider") /\ ~Called(r, "log")
        /\ Done(q) /\ error[q] = NoError /\ Len(ai_logs) = 1

\* C10: each request is one linear pipeline: validation, then at most one
\* provider call, then at most one log write, then exactly one response, and
\* nothing after it; under every interleaving of the requests in flight the
\* reply and the logged row of a request are those of its own message.
PipelinePrefixes ==
    {<<>>,
     <<"validate", "respond">>,
     <<"validate", "provider">>,
     <<"validate", "provider", "respond">>,
     <<"validate", "provider", "log">>,
     <<"validate", "provider", "log", "respond">>}

C10_LinearPipeline ==
    /\ \A r \in Reqs :
        /\ trace[r] \in PipelinePrefixes
        /\ Done(r) <=> Count(r, "respond") = 1
        /\ Done(r) <=> res[r] # NoResponse
        /\ res[r].status = 200 =>
              /\ res[r].reply \in Completion(message[r])
              /\ res[r].saved =>
                    [prompt |-> message[r], response |-> res[r].reply] \in LogRows
    /\ \A row \in LogRows :
          \E r \in Reqs :
              /\ res[r].status = 200 /\ res[r].saved
              /\ row = [prompt |-> message[r], response |-> res[r].reply]

C10_Witness ==
    \E r, q \in Reqs :
        /\ message[r] = S(<<"h">>) /\ message[q] = S(<<"y">>)
        /\ res[r] = [status |-> 200, reply |-> S(<<"r", "h">>), saved |-> TRUE]
        /\ res[q] = [status |-> 200, reply |-> S(<<"r", "y">>), saved |-> TRUE]
        /\ ai_logs = <<[prompt |-> S(<<"y">>), response |-> S(<<"r", "y">>)],
                       [prompt |-> S(<<"h">>), response |-> S(<<"r", "h">>)]>>

-----------------------------------------------------------------------------
(* Properties of the /api/cards routes *)

\* a field that is absent or empty
AbsentOrEmpty(v) == v = U \/ v = Null \/ v = S(<<>>)

MissingFields(body) ==
    {i \in 1..Len(requiredFields) : AbsentOrEmpty(body[requiredFields[i]])}

Least(set) == CHOOSE i \in set : \A j \in set : i <= j

\* C4 as claimed: a create request with a required field absent or empty is
\* answered 400 naming the first such field, in the order issuer, card_name,
\* spend_category, reward_value, and creates nothing; a create request with
\* all four fields present and non-empty is not answered 400.
C4_RejectsExactlyMissingFields ==
    cardRes.op = "POST" =>
        IF MissingFields(cardRes.body) # {}
        THEN /\ cardRes.status = 400
             /\ cardRes.field = requiredFields[Least(MissingFields(cardRes.body))]
             /\ lastCreated = Null
        ELSE cardRes.status # 400

\* C5: an update or delete whose id matches no stored record, the store call
\* not failing, is answered 404 and leaves the stored records as they were;
\* one whose id matches a record is answered 200; a successful delete removes
\* the record, and an id once removed matches no record again, so that every
\* further update or delete of it is answered 404.
C5_Step ==
    /\ (cardRes'.op \in {"PUT", "DELETE"} /\ cardRes'.status # 500) =>
          /\ cardRes'.id \notin RowIds(credit_cards) =>
                (cardRes'.status = 404 /\ credit_cards' = credit_cards)
          /\ cardRes'.id \in RowIds(credit_cards) => cardRes'.status = 200
          /\ (cardRes'.op = "DELETE" /\ cardRes'.status = 200) =>
                /\ cardRes'.id \notin RowIds(credit_cards')
                /\ Len(credit_cards') = Len(credit_cards) - 1
    /\ \A id \in Ids :
          (id < nextId /\ id \notin RowIds(credit_cards)) =>
              id \notin RowIds(credit_cards')

C5_NotFoundIffNoMatch == [][C5_Step]_vars

C5_Witness ==
    /\ cardRes = [op |-> "PUT", id |-> 1, status |-> 404]
    /\ nextId > 2
    /\ RowIds(credit_cards) = {2}

\* C7: a list request that follows a create answered 201, with no other
\* request in between and no store failure, returns a list holding the record
\* of the 201 response, and that record has the values the create submitted.
C7_CreateThenList ==
    (cardRes.op = "GET" /\ cardRes.status = 200 /\ lastCreated # Null) =>
        \E i \in 1..Len(cardRes.data) :
            /\ cardRes.data[i] = lastCreated.data
            /\ \A c \in Columns :
                  lastCreated.body[c] # U => cardRes.data[i][c] = lastCreated.body[c]
            /\ \A j \in 1..Len(cardRes.data) :
                  cardRes.data[j].id = lastCreated.data.id => j = i

C7_Witness ==
    /\ cardRes.op = "GET" /\ cardRes.status = 200
    /\ lastCreated # Null
    /\ lastCreated.body.region = S(<<"h">>)
    /\ Len(cardRes.data) = 2
    /\ cardRes.data[1] = lastCreated.data

\* the value contains the parameter as a substring, ignoring case
ContainsIgnoringCase(v, param) ==
    /\ v.t = "string"
    /\ \E k \in 0..(Len(v.s) - Len(param.s)) :
          \A j \in 1..Len(param.s) : Lower(v.s[k + j]) = Lower(param.s[j])

Present(param) == param # U /\ param # S(<<>>)

\* C8 as claimed: the filter returns exactly the stored records that satisfy
\* every present parameter: category as a case-insensitive substring of the
\* spend category, region as one of the region; an absent or empty parameter
\* constrains nothing.
C8_FilterIsSubstringMatch ==
    (cardRes.op = "FILTER" /\ cardRes.status = 200) =>
        cardRes.data =
            SelectSeq(credit_cards,
                LAMBDA row :
                    /\ Present(cardRes.category) =>
                          ContainsIgnoringCase(row.spend_category, cardRes.category)
                    /\ Present(cardRes.region) =>
                          ContainsIgnoringCase(row.region, cardRes.region))

\* C9: a successful list request returns every stored record once, whatever
\* the order they were stored in, as a sequence ascending by issuer.
C9_ListIsSortedAndComplete ==
    (cardRes.op = "GET" /\ cardRes.status = 200) =>
        /\ Len(cardRes.data) = Len(credit_cards)
        /\ {cardRes.data[i] : i \in 1..Len(cardRes.data)} =
              {credit_cards[i] : i \in 1..Len(credit_cards)}
        /\ Cardinality(RowIds(cardRes.data)) = Len(cardRes.data)
        /\ \A i \in 1..Len(cardRes.data) - 1 :
              StrLeq(cardRes.data[i].issuer.s, cardRes.data[i + 1].issuer.s)

C9_Witness ==
    /\ cardRes.op = "GET" /\ cardRes.status = 200
    /\ Len(credit_cards) = 2
    /\ credit_cards[1].issuer = S(<<"b">>)
    /\ credit_cards[2].issuer = S(<<"a", "b">>)
    /\ cardRes.data = <<credit_cards[2], credit_cards[1]>>

====
